---- MODULE Spec2Model ----
(***************************************************************************)
(* Soil Moisture Guard firmware (platformio/soil_moisture/src/main.cpp).   *)
(* Four channels, each with a capacitive moisture sensor, a reference      *)
(* potentiometer and a pump behind one HC237 decoder.  The model follows   *)
(* loop(): updateState(), then - if it reported an update -                *)
(* updateDisplay() and runPumps(), then the watchdog sleep.                *)
(***************************************************************************)
EXTENDS Integers, Sequences, FiniteSets, TLC

(***************************************************************************)
(* Configuration and calibration (#defines of main.cpp)                    *)
(***************************************************************************)
NUMBER_OF_CHANNELS == 4
PUMP_MAX_ATTEMPTS == 3
PUMP_DURATION == 10
WET_MEASUREMENT == 150
DRY_MEASUREMENT == 660
NUMBER_OF_MEASUREMENT_SAMPLES == 4
TOLERANCE == 2
INIT_MOISTURE_LEVEL == 99
INIT_REFERENCE_LEVEL == 25
\* analogRead(): 10 bit A/D converter
ADC_MAX == 1023

Channels == 0 .. (NUMBER_OF_CHANNELS - 1)

Uint8(x) == x % 256
Uint16(x) == x % 65536

(***************************************************************************)
(* IEEE-754 single precision, as far as convertMeasurementToPercent uses   *)
(* it.  A float is (-1)^neg * m * 2^e with m < 2^24 (m = 2^24 after a      *)
(* carry).  Wide intermediate values are kept as hi * 4096 + lo so that    *)
(* every integer stays below 2^31.                                         *)
(***************************************************************************)
RECURSIVE BitLen(_)
BitLen(x) == IF x = 0 THEN 0 ELSE 1 + BitLen(x \div 2)

\* round hi * 4096 + lo (0 <= lo < 4096) to 24 significant bits, nearest,
\* ties to even; k is the number of low bits dropped
RoundBig(hi, lo) ==
  LET k    == IF hi < 4096 THEN 0 ELSE BitLen(hi) - 12
      kept == hi * (2 ^ (12 - k)) + (lo \div (2 ^ k))
      rem  == lo % (2 ^ k)
      half == IF k = 0 THEN 0 ELSE 2 ^ (k - 1)
      up   == k > 0 /\ (rem > half \/ (rem = half /\ kept % 2 = 1))
  IN  [m |-> IF up THEN kept + 1 ELSE kept, k |-> k]

\* m * 2^d as hi * 4096 + lo
Widen(m, d) ==
  LET l == (m % 4096) * (2 ^ d)
  IN  [hi |-> (m \div 4096) * (2 ^ d) + (l \div 4096), lo |-> l % 4096]

\* the float nearest to num / den (num, den > 0, num * 2^24 < 2^31)
F32Div(num, den) ==
  LET q0  == (num * (2 ^ 24)) \div den
      r0  == (num * (2 ^ 24)) % den
      \* bits still missing to reach 24 significant bits
      x   == 24 - BitLen(q0)
      q   == q0 * (2 ^ x) + ((r0 * (2 ^ x)) \div den)
      r   == (r0 * (2 ^ x)) % den
      up  == 2 * r > den \/ (2 * r = den /\ q % 2 = 1)
  IN  [neg |-> FALSE, m |-> IF up THEN q + 1 ELSE q, e |-> 0 - (24 + x)]

F32Neg(f) == [f EXCEPT !.neg = ~f.neg]

\* n * f for an integer n (exactly representable, |n| <= 1023)
F32MulInt(n, f) ==
  LET a   == IF n < 0 THEN 0 - n ELSE n
      q   == a * (f.m % 4096)
      hi  == a * (f.m \div 4096) + (q \div 4096)
      lo  == q % 4096
      r   == RoundBig(hi, lo)
  IN  [neg |-> (n < 0) # f.neg, m |-> r.m, e |-> f.e + r.k]

F32Add(x, y) ==
  LET eMin == IF x.e < y.e THEN x.e ELSE y.e
      X    == Widen(x.m, x.e - eMin)
      Y    == Widen(y.m, y.e - eMin)
      sx   == IF x.neg THEN 0 - 1 ELSE 1
      sy   == IF y.neg THEN 0 - 1 ELSE 1
      H0   == sx * X.hi + sy * Y.hi
      L0   == sx * X.lo + sy * Y.lo + 8192
      \* normalise the low limb into 0 .. 4095
      H    == H0 + (L0 \div 4096) - 2
      L    == L0 % 4096
      neg  == H < 0
      hi   == IF ~neg THEN H ELSE IF L = 0 THEN 0 - H ELSE (0 - H) - 1
      lo   == IF ~neg THEN L ELSE IF L = 0 THEN 0 ELSE 4096 - L
      r    == RoundBig(hi, lo)
  IN  [neg |-> neg, m |-> r.m, e |-> eMin + r.k]

\* c < f and c > f for an integer c >= 0
F32Floor(f) == IF f.e >= 0 THEN f.m * (2 ^ f.e) ELSE f.m \div (2 ^ (0 - f.e))
F32HasFrac(f) == f.e < 0 /\ f.m % (2 ^ (0 - f.e)) # 0
IntLess(c, f) == ~f.neg /\ (F32Floor(f) > c \/ (F32Floor(f) = c /\ F32HasFrac(f)))
IntGreater(c, f) == (f.neg /\ f.m # 0) \/ (~f.neg /\ F32Floor(f) < c)

(***************************************************************************)
(* uint8_t convertMeasurementToPercent(uint16_t measurement)               *)
(***************************************************************************)
\* const float a = 100.0/(WET_MEASUREMENT - DRY_MEASUREMENT)
CoeffA == F32Neg(F32Div(100, DRY_MEASUREMENT - WET_MEASUREMENT))
\* const float b = -DRY_MEASUREMENT*a
CoeffB == F32MulInt(0 - DRY_MEASUREMENT, CoeffA)

\* variant: the percentage is capped one too high
convertMeasurementToPercent_Cap100(measurement) ==
  LET percentage == F32Add(F32MulInt(measurement, CoeffA), CoeffB)
  IN  IF IntLess(99, percentage) THEN 100
      ELSE IF IntGreater(0, percentage) THEN 0
      ELSE Uint8(F32Floor(percentage))
\* variant: the percentage is not capped at 99
convertMeasurementToPercent_NoCap(measurement) ==
  LET percentage == F32Add(F32MulInt(measurement, CoeffA), CoeffB)
  IN  IF IntGreater(0, percentage) THEN 0
      ELSE Uint8(F32Floor(percentage))
convertMeasurementToPercent(measurement) ==
  LET percentage == F32Add(F32MulInt(measurement, CoeffA), CoeffB)
      \* min(99, percentage): ((99)<(percentage)?(99):(percentage))
      capped     == IntLess(99, percentage)
      \* max(0, ..): ((0)>(..)?(0):(..))
      floored    == ~capped /\ IntGreater(0, percentage)
  IN  IF capped THEN 99
      ELSE IF floored THEN 0
      ELSE Uint8(F32Floor(percentage))


(***************************************************************************)
(* boolean almostEqual(uint8_t a, uint8_t b, uint8_t absdiff)              *)
(***************************************************************************)
Max(a, b) == IF a > b THEN a ELSE b
Min(a, b) == IF a < b THEN a ELSE b

\* variant: a difference one above absdiff is still almost equal
almostEqual_Loose(a, b, absdiff) ==
  (Max(Uint8(a), Uint8(b)) - Min(Uint8(a), Uint8(b))) <= Uint8(absdiff) + 1
\* variant: a difference equal to absdiff is no longer almost equal
almostEqual_Strict(a, b, absdiff) ==
  (Max(Uint8(a), Uint8(b)) - Min(Uint8(a), Uint8(b))) < Uint8(absdiff)
almostEqual(a, b, absdiff) ==
  (Max(Uint8(a), Uint8(b)) - Min(Uint8(a), Uint8(b))) <= Uint8(absdiff)

(***************************************************************************)
(* Bounds of the model: the readings the environment can present and the   *)
(* cap of the dry-cycle counter kept for the retry properties.             *)
(***************************************************************************)
MaxDryCycles == 4

\* the four A/D readings of one channel's sensor in one cycle
SensorRuns ==
  { <<405, 405, 405, 405>>,      \* 50 %
    <<429, 430, 431, 432>>,      \* noisy, averages to 430: 45 %
    <<456, 456, 456, 456>>,      \* 40 %, exactly the reference
    <<506, 505, 507, 506>> }     \* 30 %

\* the four A/D readings of the potentiometer in one cycle
ReferenceRuns == { <<400, 401, 400, 402>> }   \* 40 %

\* The end-to-end example of the retry machine: in cycle k of the scenario
\* the sensor of ScenarioChannel reads 45 %, then 30 % three times, then
\* 50 % (reference 40 % throughout); the other channels read anything.
ScenarioChannel == 0
ScenarioLength == 6
\* The sweep: the sensor and the potentiometer of ScenarioChannel go over
\* the whole A/D range - beyond both calibration points, and in steps small
\* enough to stay within the tolerance - while the other channels rest at
\* their reference.
SweepRaws ==
  {0, 100, 150, 151, 300, 440, 445, 450, 455, 460, 465, 470, 600, 659, 660,
   661, 800, 1023}
SweepSensorRuns ==
  {<<r, r, r, r>> : r \in SweepRaws} \cup {<<0, 1023, 0, 1023>>}
SweepReferenceRuns ==
  {<<r, r, r, r>> : r \in {0, 400, 420, 430, 1023}}
RestRun == <<456, 456, 456, 456>>

\* the largest distance of the two raw values converted side by side
MaxProbeStep == 4

\* the largest tolerance almostEqual() is tried with
MaxProbeTolerance == 4

ScenarioRun(k) ==
  IF k = 1 THEN <<429, 430, 431, 432>>
  ELSE IF k \in 2 .. 4 THEN <<506, 505, 507, 506>>
  ELSE <<405, 405, 405, 405>>

(***************************************************************************)
(* Global state: channel_state[NUMBER_OF_CHANNELS]                         *)
(***************************************************************************)
max_pump_attempts(ch) == PUMP_MAX_ATTEMPTS
pump_duration(ch) == PUMP_DURATION
sensor_dec(ch) == 4 + ch
pump_dec(ch) == ch

VARIABLES
  channel_state,   \* the mutable fields of ChannelState_T, per channel
  pc,              \* position of the single control thread
  i,               \* loop index of updateState() / runPumps()
  update,          \* updateState()'s update, then loop()'s hasStateUpdate
  dec,             \* DEC_EN and the three decoder address pins d2, d3, d4
  scene,           \* what the e-paper display shows, per channel
  refreshes,       \* history: display refreshes in this cycle
  pump_runs,       \* history: per channel, pump switch-ons in this cycle
  attempts_sampled,\* history: per channel, pump_attempts when sampling ended
  dry_cycles,      \* history: per channel, consecutive cycles below reference
  any_filter_change, \* history: some almostEqual test failed in this cycle
  any_state_change,  \* history: some channel_state entry changed in sampling
  last,            \* history: the updateState() iteration just executed
  samples,         \* history: per channel, sampling steps in this cycle
  runs_since_reset,\* history: per channel, pump switch-ons since the count
                   \* was last set to 0
  script,          \* 0, or the cycle of the end-to-end scenario being played
  sweep,           \* whether the readings of ScenarioChannel sweep the range
  probe            \* the arguments and results of a function tried alone

vars == <<channel_state, pc, i, update, dec, scene, refreshes, pump_runs,
          attempts_sampled, dry_cycles, any_filter_change, any_state_change,
          last, samples, runs_since_reset, script, sweep, probe>>

\* the environment played, and the function probe
env == <<script, sweep, probe>>

hist == <<refreshes, pump_runs, attempts_sampled, dry_cycles,
          any_filter_change, any_state_change, samples, runs_since_reset,
          env>>

NoProbe == [kind |-> "none"]

NoSample == [ch |-> NUMBER_OF_CHANNELS]

BelowReference(cs) == cs.moisture_level < cs.moisture_reference_level

InitChannel ==
  [pump_attempts            |-> 0,
   moisture_level           |-> INIT_MOISTURE_LEVEL,
   moisture_level_raw       |-> 0,
   moisture_reference_level |-> INIT_REFERENCE_LEVEL]

BlankRow == [drawn |-> FALSE, level_color |-> "BLACK", pump_attempts |-> 0,
             attempts_color |-> "BLACK", bar_color |-> "BLACK"]

Boot ==
  /\ channel_state = [ch \in Channels |-> InitChannel]
  /\ pc = "select"
  /\ i = 0
  /\ update = FALSE
  /\ dec = [en |-> FALSE, d2 |-> 0, d3 |-> 0, d4 |-> 0]
  /\ scene = [ch \in Channels |-> BlankRow]
  /\ refreshes = 0
  /\ pump_runs = [ch \in Channels |-> 0]
  /\ attempts_sampled = [ch \in Channels |-> 0]
  /\ dry_cycles = [ch \in Channels |-> 0]
  /\ any_filter_change = FALSE
  /\ any_state_change = FALSE
  /\ last = NoSample
  /\ samples = [ch \in Channels |-> 0]
  /\ runs_since_reset = [ch \in Channels |-> 0]

Init == Boot /\ script = 0 /\ sweep = FALSE /\ probe = NoProbe

\* the readings the sensor of channel ch can give in this cycle
SensorRunsOf(ch) ==
  IF sweep
  THEN IF ch = ScenarioChannel THEN SweepSensorRuns ELSE {RestRun}
  ELSE IF script > 0 /\ ch = ScenarioChannel
       THEN {ScenarioRun(script)} ELSE SensorRuns

\* the readings the potentiometer of channel ch can give in this cycle
ReferenceRunsOf(ch) ==
  IF sweep /\ ch = ScenarioChannel THEN SweepReferenceRuns ELSE ReferenceRuns

(***************************************************************************)
(* void setDecoder(uint8_t val): the decoder after the call                *)
(***************************************************************************)
setDecoder(val) ==
  [en |-> TRUE,
   d2 |-> val % 2,
   d3 |-> (val \div 2) % 2,
   d4 |-> (val \div 4) % 2]

\* digitalWrite(DEC_EN, LOW)
\* variant: the enable pin is left high
DecoderOff_Stays(d) == d
DecoderOff(d) == [d EXCEPT !.en = FALSE]

\* HC237 wiring: A0 - d2, A1 - d3, A2 - d4
DecoderAddress(d) == d.d2 + 2 * d.d3 + 4 * d.d4
Selected(d, addr) == d.en /\ DecoderAddress(d) = addr
PumpOn(ch) == Selected(dec, pump_dec(ch))

(***************************************************************************)
(* updateState(): one iteration of the channel loop                        *)
(***************************************************************************)
\* measurement += analogRead(..), NUMBER_OF_MEASUREMENT_SAMPLES times
RECURSIVE Accumulate(_, _)
Accumulate(run, j) ==
  IF j = 0 THEN 0 ELSE Uint16(Accumulate(run, j - 1) + run[j])

Average(run) ==
  Accumulate(run, NUMBER_OF_MEASUREMENT_SAMPLES) \div NUMBER_OF_MEASUREMENT_SAMPLES

\* uint8_t percentage_ref = measurement_ref/10
ReferencePercent(measurement_ref) == Uint8(measurement_ref \div 10)

\* convertMeasurementToPercent(measurement) for every average of 10-bit
\* samples, evaluated once
PercentOf == [m \in 0 .. ADC_MAX |-> convertMeasurementToPercent(m)]

\* variant: the raw value is stored outside the if-block
FilterMoisture_RawAlways(cs, percentage, measurement) ==
  IF ~almostEqual(cs.moisture_level, percentage, TOLERANCE)
  THEN [cs EXCEPT !.moisture_level = percentage,
                  !.moisture_level_raw = measurement]
  ELSE [cs EXCEPT !.moisture_level_raw = measurement]
\* if (!almostEqual(moisture_level, percentage, 2)) { ... }
FilterMoisture(cs, percentage, measurement) ==
  IF ~almostEqual(cs.moisture_level, percentage, TOLERANCE)
  THEN [cs EXCEPT !.moisture_level = percentage,
                  !.moisture_level_raw = measurement]
  ELSE cs

\* if (!almostEqual(moisture_reference_level, percentage_ref, 2)) { ... }
FilterReference(cs, percentage_ref) ==
  IF ~almostEqual(cs.moisture_reference_level, percentage_ref, TOLERANCE)
  THEN [cs EXCEPT !.moisture_reference_level = percentage_ref]
  ELSE cs

\* variant: reset only when strictly above the reference
ResetAttempts_Strict(cs) ==
  IF cs.moisture_level > cs.moisture_reference_level
  THEN [cs EXCEPT !.pump_attempts = 0]
  ELSE cs

\* variant: a recovered channel gets one attempt back instead of all
ResetAttempts_OneBack(cs) ==
  IF cs.moisture_level >= cs.moisture_reference_level
  THEN [cs EXCEPT !.pump_attempts = IF @ > 0 THEN @ - 1 ELSE 0]
  ELSE cs

\* if (moisture_level >= moisture_reference_level) pump_attempts = 0
ResetAttempts(cs) ==
  IF cs.moisture_level >= cs.moisture_reference_level
  THEN [cs EXCEPT !.pump_attempts = 0]
  ELSE cs

\* variant: the else branch is missing
ForcedUpdate_Never(cs) == FALSE

\* variant: no update is forced once the attempts are used up
ForcedUpdate_OnlyDue(cs) ==
  /\ ~(cs.moisture_level >= cs.moisture_reference_level)
  /\ cs.pump_attempts < PUMP_MAX_ATTEMPTS

\* variant: update |= true sits after the if/else
ForcedUpdate_Always(cs) == TRUE

\* else update |= true
ForcedUpdate(cs) == ~(cs.moisture_level >= cs.moisture_reference_level)

SelectSensor ==
  /\ pc = "select"
  /\ dec' = setDecoder(sensor_dec(i))
  /\ pc' = "sample"
  /\ last' = NoSample
  /\ UNCHANGED <<channel_state, i, update, scene, hist>>

\* variant: the channel loop leaves out the last channel
NextSample_StopsEarly(n) ==
  IF n + 2 < NUMBER_OF_CHANNELS THEN "select" ELSE "returned"
\* for (uint8_t i = 0; i < NUMBER_OF_CHANNELS; i++)
NextSample(n) == IF n + 1 < NUMBER_OF_CHANNELS THEN "select" ELSE "returned"

SampleChannel ==
  /\ pc = "sample"
  /\ \E srun \in SensorRunsOf(i), rrun \in ReferenceRunsOf(i) :
       LET measurement     == Average(srun)
           measurement_ref == Average(rrun)
           percentage      == PercentOf[measurement]
           percentage_ref  == ReferencePercent(measurement_ref)
           cs0  == channel_state[i]
           cs1  == FilterMoisture(cs0, percentage, measurement)
           cs2  == FilterReference(cs1, percentage_ref)
           cs3  == ResetAttempts(cs2)
           mchg == ~almostEqual(cs0.moisture_level, percentage, TOLERANCE)
           rchg == ~almostEqual(cs1.moisture_reference_level, percentage_ref,
                                TOLERANCE)
       IN  /\ channel_state' = [channel_state EXCEPT ![i] = cs3]
           /\ update' = (update \/ mchg \/ rchg \/ ForcedUpdate(cs2))
           /\ any_filter_change' = (any_filter_change \/ mchg \/ rchg)
           /\ any_state_change' = (any_state_change \/ cs3 # cs0)
           /\ attempts_sampled' =
                [attempts_sampled EXCEPT ![i] = cs3.pump_attempts]
           /\ dry_cycles' =
                [dry_cycles EXCEPT ![i] =
                   IF BelowReference(cs3)
                   THEN Min(dry_cycles[i] + 1, MaxDryCycles) ELSE 0]
           /\ last' = [ch |-> i, before |-> cs0, measurement |-> measurement,
                       percentage |-> percentage,
                       percentage_ref |-> percentage_ref,
                       mchg |-> mchg, rchg |-> rchg]
           /\ runs_since_reset' =
                [runs_since_reset EXCEPT ![i] =
                   IF cs3.pump_attempts = 0 THEN 0 ELSE @]
  /\ samples' = [samples EXCEPT ![i] = @ + 1]
  /\ dec' = DecoderOff(dec)
  /\ i' = i + 1
  /\ pc' = NextSample(i)
  /\ UNCHANGED <<scene, refreshes, pump_runs, env>>

(***************************************************************************)
(* updateDisplay(): the row drawn for one channel - the colours of the     *)
(* moisture text and bar, and the attempt count with its colour            *)
(***************************************************************************)
Row(cs, ch) ==
  [drawn              |-> TRUE,
   level_color        |-> IF cs.moisture_level < cs.moisture_reference_level
                          THEN "RED" ELSE "BLACK",
   pump_attempts      |-> cs.pump_attempts,
   attempts_color     |-> IF cs.pump_attempts >= max_pump_attempts(ch)
                          THEN "RED" ELSE "BLACK",
   bar_color          |-> IF cs.moisture_level < cs.moisture_reference_level
                          THEN "RED" ELSE "BLACK"]

\* variant: runPumps() is called without updateDisplay() before it
UpdateDisplay_Missing ==
  /\ pc = "returned"
  /\ update
  /\ pc' = "pumps"
  /\ i' = 0
  /\ last' = NoSample
  /\ UNCHANGED <<channel_state, update, dec, scene, hist>>

\* loop(): if (hasStateUpdate) { updateDisplay(); ...
UpdateDisplay ==
  /\ pc = "returned"
  /\ update
  /\ scene' = [ch \in Channels |-> Row(channel_state[ch], ch)]
  /\ refreshes' = refreshes + 1
  /\ pc' = "pumps"
  /\ i' = 0
  /\ last' = NoSample
  /\ UNCHANGED <<channel_state, update, dec, pump_runs, attempts_sampled,
                 dry_cycles, any_filter_change, any_state_change, samples,
                 runs_since_reset, env>>

\* loop(): hasStateUpdate is false, straight to the sleep loop
SkipUpdate ==
  /\ pc = "returned"
  /\ ~update
  /\ pc' = "sleep"
  /\ i' = 0
  /\ last' = NoSample
  /\ UNCHANGED <<channel_state, update, dec, scene, hist>>

(***************************************************************************)
(* runPumps()                                                              *)
(***************************************************************************)
\* variant: <= in the attempts test
PumpDue_AllowsMax(cs, ch) ==
  /\ cs.moisture_level < cs.moisture_reference_level
  /\ cs.pump_attempts <= max_pump_attempts(ch)

\* variant: the attempts test stops one short of the maximum
PumpDue_OneShort(cs, ch) ==
  /\ cs.moisture_level < cs.moisture_reference_level
  /\ cs.pump_attempts + 1 < max_pump_attempts(ch)

\* variant: the attempts test is missing
PumpDue_NoLimit(cs, ch) ==
  cs.moisture_level < cs.moisture_reference_level

\* the two nested conditions guarding a pump run
PumpDue(cs, ch) ==
  /\ cs.moisture_level < cs.moisture_reference_level
  /\ cs.pump_attempts < max_pump_attempts(ch)

\* variant: the attempt is not counted
CountAttempt_Never(cs) == cs

\* variant: pump_attempts += 2
CountAttempt_Twice(cs) == [cs EXCEPT !.pump_attempts = Uint8(cs.pump_attempts + 2)]

\* pump_attempts += 1
CountAttempt(cs) == [cs EXCEPT !.pump_attempts = Uint8(cs.pump_attempts + 1)]

NextPump(n) == IF n + 1 < NUMBER_OF_CHANNELS THEN "pumps" ELSE "sleep"

\* count the attempt, then setDecoder(pump_dec): pump on
StartPump ==
  /\ pc = "pumps"
  /\ PumpDue(channel_state[i], i)
  /\ channel_state' = [channel_state EXCEPT ![i] = CountAttempt(@)]
  /\ dec' = setDecoder(pump_dec(i))
  /\ pump_runs' = [pump_runs EXCEPT ![i] = @ + 1]
  /\ runs_since_reset' = [runs_since_reset EXCEPT ![i] = @ + 1]
  /\ pc' = "pumping"
  /\ UNCHANGED <<i, update, scene, refreshes, attempts_sampled, dry_cycles,
                 any_filter_change, any_state_change, last, samples, env>>

\* variant: DEC_EN is not lowered after the run
StopPump_LeavesOn ==
  /\ pc = "pumping"
  /\ pc' = NextPump(i)
  /\ i' = IF i + 1 < NUMBER_OF_CHANNELS THEN i + 1 ELSE 0
  /\ UNCHANGED <<channel_state, update, dec, scene, hist, last>>

\* delay(pump_duration ...) is over; digitalWrite(DEC_EN, LOW): pump off
StopPump ==
  /\ pc = "pumping"
  /\ dec' = DecoderOff(dec)
  /\ pc' = NextPump(i)
  /\ i' = IF i + 1 < NUMBER_OF_CHANNELS THEN i + 1 ELSE 0
  /\ UNCHANGED <<channel_state, update, scene, hist, last>>

\* channel not below reference, or out of attempts: next channel
SkipPump ==
  /\ pc = "pumps"
  /\ ~PumpDue(channel_state[i], i)
  /\ pc' = NextPump(i)
  /\ i' = IF i + 1 < NUMBER_OF_CHANNELS THEN i + 1 ELSE 0
  /\ UNCHANGED <<channel_state, update, dec, scene, hist, last>>

(***************************************************************************)
(* loop(): the watchdog sleep, then the next call of loop()                *)
(***************************************************************************)
\* variant: the watchdog sleep never ends
Sleep_Forever ==
  /\ pc = "sleep"
  /\ UNCHANGED vars
Sleep ==
  /\ pc = "sleep"
  /\ script # ScenarioLength
  /\ script' = IF script = 0 THEN 0 ELSE script + 1
  /\ pc' = "select"
  /\ i' = 0
  /\ update' = FALSE
  /\ refreshes' = 0
  /\ pump_runs' = [ch \in Channels |-> 0]
  /\ any_filter_change' = FALSE
  /\ any_state_change' = FALSE
  /\ attempts_sampled' = [ch \in Channels |-> 0]
  /\ samples' = [ch \in Channels |-> 0]
  /\ UNCHANGED <<channel_state, dec, scene, dry_cycles, last,
                 runs_since_reset, sweep, probe>>

Next ==
  \/ SelectSensor
  \/ SampleChannel
  \/ UpdateDisplay
  \/ SkipUpdate
  \/ StartPump
  \/ StopPump
  \/ SkipPump
  \/ Sleep

Spec == Init /\ [][Next]_vars

\* the firmware from boot, channel ScenarioChannel reading the scenario
ScenarioInit == Boot /\ script = 1 /\ sweep = FALSE /\ probe = NoProbe
ScenarioSpec == ScenarioInit /\ [][Next]_vars

\* the firmware from boot, channel ScenarioChannel sweeping the A/D range
SweepInit == Boot /\ script = 0 /\ sweep = TRUE /\ probe = NoProbe
SweepSpec == SweepInit /\ [][Next]_vars

\* the single control thread never stops by itself: delays and watchdog
\* sleeps end, so a step that can be taken is taken
FairSweepSpec == SweepSpec /\ WF_vars(Next)

(***************************************************************************)
(* convertMeasurementToPercent() tried alone: two raw values of the A/D    *)
(* range, at most MaxProbeStep apart, are converted.                       *)
(***************************************************************************)
ConvertProbes ==
  {[kind |-> "convert", measurement |-> r, step |-> d, results |-> <<>>] :
     r \in 0 .. ADC_MAX, d \in 1 .. MaxProbeStep}

Convert ==
  /\ probe.kind = "convert"
  /\ probe.results = <<>>
  /\ probe' =
       [probe EXCEPT !.results =
          <<convertMeasurementToPercent(probe.measurement),
            convertMeasurementToPercent(
              Min(probe.measurement + probe.step, ADC_MAX))>>]
  /\ UNCHANGED <<channel_state, pc, i, update, dec, scene, refreshes,
                 pump_runs, attempts_sampled, dry_cycles, any_filter_change,
                 any_state_change, last, samples, runs_since_reset, script,
                 sweep>>

ConvertInit == Boot /\ script = 0 /\ sweep = FALSE /\ probe \in ConvertProbes
ConvertSpec == ConvertInit /\ [][Convert]_vars

(***************************************************************************)
(* almostEqual() tried alone, on every pair of percent values the sampling *)
(* can compute (the reference percent goes up to ADC_MAX/10), next to the  *)
(* firmware running with the sweeping channel.                             *)
(***************************************************************************)
ProbeLevels == 0 .. ReferencePercent(ADC_MAX)

AlmostEqualProbes ==
  {[kind |-> "almostEqual", a |-> a, b |-> b, absdiff |-> t,
    results |-> <<>>] :
     a \in ProbeLevels, b \in ProbeLevels, t \in 0 .. MaxProbeTolerance}

Compare ==
  /\ probe.kind = "almostEqual"
  /\ probe.results = <<>>
  /\ probe' =
       [probe EXCEPT !.results =
          <<almostEqual(probe.a, probe.b, probe.absdiff),
            almostEqual(probe.b, probe.a, probe.absdiff),
            almostEqual(probe.a, probe.a, probe.absdiff)>>]
  /\ UNCHANGED <<channel_state, pc, i, update, dec, scene, refreshes,
                 pump_runs, attempts_sampled, dry_cycles, any_filter_change,
                 any_state_change, last, samples, runs_since_reset, script,
                 sweep>>

FilterInit ==
  Boot /\ script = 0 /\ sweep = TRUE
       /\ probe \in {NoProbe} \cup AlmostEqualProbes
FilterNext == (probe = NoProbe /\ Next) \/ Compare
FilterSpec == FilterInit /\ [][FilterNext]_vars

TypeOK ==
  /\ pc \in {"select", "sample", "returned", "pumps", "pumping", "sleep"}
  /\ i \in 0 .. NUMBER_OF_CHANNELS
  /\ update \in BOOLEAN
  /\ script \in 0 .. ScenarioLength
  /\ sweep \in BOOLEAN
  /\ samples \in [Channels -> 0 .. 1]
  /\ runs_since_reset \in [Channels -> 0 .. PUMP_MAX_ATTEMPTS]
  /\ dec \in [en : BOOLEAN, d2 : 0 .. 1, d3 : 0 .. 1, d4 : 0 .. 1]


(***************************************************************************)
(* The retry states of a channel (spec 4.4)                                *)
(***************************************************************************)
Attempts(ch) == channel_state[ch].pump_attempts
Level(ch) == channel_state[ch].moisture_level
Reference(ch) == channel_state[ch].moisture_reference_level

StateOK(ch) == Level(ch) >= Reference(ch) /\ Attempts(ch) = 0
StateDRY(ch) == Level(ch) < Reference(ch) /\ Attempts(ch) < max_pump_attempts(ch)
StateEXHAUSTED(ch) ==
  Level(ch) < Reference(ch) /\ Attempts(ch) = max_pump_attempts(ch)

\* this step sampled channel ch
Sampled(ch) == pc = "sample" /\ i = ch
\* this step switched the pump of channel ch on
SwitchedOn(ch) == ~PumpOn(ch) /\ PumpOn(ch)'

(***************************************************************************)
(* C1: in every reachable state and for every channel,                     *)
(* pump_attempts <= max_pump_attempts.                                     *)
(***************************************************************************)
C1_AttemptsBounded ==
  \A ch \in Channels : Attempts(ch) <= max_pump_attempts(ch)

\* a pump run has just taken a channel to its last attempt
C1_Witness ==
  \E ch \in Channels :
    /\ pc = "pumping" /\ i = ch
    /\ Attempts(ch) = max_pump_attempts(ch)
    /\ attempts_sampled[ch] = max_pump_attempts(ch) - 1

(***************************************************************************)
(* C2: a channel that is below its reference with attempts left when       *)
(* sampling ends gets exactly one pump run in that cycle and its           *)
(* pump_attempts grows by exactly 1; the attempt is counted before the     *)
(* pump is on, and the stored moisture plays no part in it afterwards.     *)
(***************************************************************************)
C2_OneRunPerDryChannel ==
  \A ch \in Channels :
    /\ pump_runs[ch] <= 1
    \* while the pump runs the attempt is already counted
    /\ PumpOn(ch) =>
         /\ pump_runs[ch] = 1
         /\ Attempts(ch) = attempts_sampled[ch] + 1
    \* at the end of the cycle
    /\ ( /\ pc = "sleep"
         /\ Level(ch) < Reference(ch)
         /\ attempts_sampled[ch] < max_pump_attempts(ch) ) =>
         /\ pump_runs[ch] = 1
         /\ Attempts(ch) = attempts_sampled[ch] + 1

\* end of a cycle in which a channel had its second run, still dry
C2_Witness ==
  \E ch \in Channels :
    /\ pc = "sleep"
    /\ Level(ch) < Reference(ch)
    /\ attempts_sampled[ch] = 1
    /\ pump_runs[ch] = 1
    /\ Attempts(ch) = 2

(***************************************************************************)
(* C3: an EXHAUSTED channel (below reference, pump_attempts = max) never   *)
(* has its pump switched on and keeps pump_attempts = max; it leaves       *)
(* EXHAUSTED only when its own sampling step observes level >= reference   *)
(* and resets pump_attempts to 0 - never directly to DRY.                  *)
(***************************************************************************)
C3_ExhaustedStaysOff ==
  [][ \A ch \in Channels :
        StateEXHAUSTED(ch) =>
          /\ ~SwitchedOn(ch)
          /\ pump_runs'[ch] <= pump_runs[ch]
          /\ \/ StateEXHAUSTED(ch)'
             \/ StateOK(ch)' /\ Sampled(ch) ]_vars

\* runPumps() has passed over a channel that was already out of attempts
\* when the cycle began
C3_Witness ==
  \E ch \in Channels :
    /\ StateEXHAUSTED(ch)
    /\ dry_cycles[ch] > max_pump_attempts(ch)
    /\ refreshes = 1
    /\ pump_runs[ch] = 0
    /\ pc = "sleep"

(***************************************************************************)
(* C4: when sampling has ended, and between cycles, a channel with         *)
(* moisture_level >= moisture_reference_level has pump_attempts = 0,       *)
(* whatever the count was before; every channel is in exactly one of OK,   *)
(* DRY, EXHAUSTED.  (Each sampling step is atomic here, so the statement   *)
(* is checked in every state.)                                             *)
(***************************************************************************)
C4_RecoveredMeansZero ==
  \A ch \in Channels :
    /\ Level(ch) >= Reference(ch) => Attempts(ch) = 0
    /\ StateOK(ch) \/ StateDRY(ch) \/ StateEXHAUSTED(ch)
    /\ ~(StateOK(ch) /\ StateDRY(ch))
    /\ ~(StateOK(ch) /\ StateEXHAUSTED(ch))
    /\ ~(StateDRY(ch) /\ StateEXHAUSTED(ch))

\* a sampling step has just reset a channel from max, the level reaching
\* exactly the reference
C4_Witness ==
  /\ last.ch \in Channels
  /\ last.before.pump_attempts = max_pump_attempts(last.ch)
  /\ Level(last.ch) = Reference(last.ch)
  /\ Attempts(last.ch) = 0

(***************************************************************************)
(* C5: every step leaves a channel's pump_attempts unchanged, adds exactly *)
(* 1, or sets it to 0; a change to 0 happens only in that channel's        *)
(* sampling step with level >= reference afterwards; the count is never    *)
(* lowered to a non-zero value.                                            *)
(***************************************************************************)
C5_AttemptsSteps ==
  [][ \A ch \in Channels :
        /\ \/ Attempts(ch)' = Attempts(ch)
           \/ Attempts(ch)' = Attempts(ch) + 1
           \/ Attempts(ch)' = 0
        /\ Attempts(ch)' < Attempts(ch) =>
             /\ Attempts(ch)' = 0
             /\ Sampled(ch)
             /\ Level(ch)' >= Reference(ch)' ]_vars

\* a sampling step has just reset a channel in the middle of its retries
C5_Witness ==
  /\ last.ch \in Channels
  /\ last.before.pump_attempts = 2
  /\ Attempts(last.ch) = 0


(***************************************************************************)
(* C6: from pump_attempts = 0 with max_pump_attempts = 3, at the end of    *)
(* the k-th consecutive cycle below the reference pump_attempts is         *)
(* min(k, 3) - 1, 2, 3, then pinned at 3 and EXHAUSTED from the 3rd cycle  *)
(* on; a following cycle with level >= reference leaves pump_attempts = 0  *)
(* whatever the count was.                                                 *)
(***************************************************************************)
C6_AttemptsFollowDryCycles ==
  \A ch \in Channels :
    /\ (pc = "sleep" /\ dry_cycles[ch] >= 1) =>
         /\ Attempts(ch) = Min(dry_cycles[ch], 3)
         /\ dry_cycles[ch] >= 3 => StateEXHAUSTED(ch)
    /\ dry_cycles[ch] = 0 => Attempts(ch) = 0

\* end of a 4th dry cycle next to a channel ending its 3rd
C6_Witness ==
  /\ pc = "sleep"
  /\ \E ch \in Channels : dry_cycles[ch] = 3 /\ Attempts(ch) = 3
  /\ \E ch \in Channels : dry_cycles[ch] = 4 /\ Attempts(ch) = 3

(***************************************************************************)
(* C7 as stated: reference 40, max 3, level 45 and attempts 0 at first;    *)
(* the cycle in which the level drops to 30 runs the pump, attempts = 1;   *)
(* the next cycle at 30 gives attempts = 2; in the next cycle at 30        *)
(* attempts = 3 = max, EXHAUSTED, no pump run occurs and the display shows *)
(* the attempt count in warning colour; the next cycle at 50 gives         *)
(* attempts = 0 and the warning colour is cleared.                         *)
(***************************************************************************)
ScenarioCycleEnds(k) == script = k /\ pc = "sleep"
ScenarioAttempts == Attempts(ScenarioChannel)
ScenarioRow == scene[ScenarioChannel]

C7_AsStated ==
  /\ ScenarioCycleEnds(1) =>
       /\ Level(ScenarioChannel) = 45 /\ Reference(ScenarioChannel) = 40
       /\ ScenarioAttempts = 0
  /\ ScenarioCycleEnds(2) =>
       /\ Level(ScenarioChannel) = 30
       /\ pump_runs[ScenarioChannel] = 1 /\ ScenarioAttempts = 1
  /\ ScenarioCycleEnds(3) => ScenarioAttempts = 2
  /\ ScenarioCycleEnds(4) =>
       /\ ScenarioAttempts = 3 /\ StateEXHAUSTED(ScenarioChannel)
       /\ pump_runs[ScenarioChannel] = 0
       /\ ScenarioRow.attempts_color = "RED"
  /\ ScenarioCycleEnds(5) =>
       /\ Level(ScenarioChannel) = 50
       /\ ScenarioAttempts = 0
       /\ ScenarioRow.attempts_color = "BLACK"

(***************************************************************************)
(* C7 amended: as above, but in the third cycle at 30 the pump runs a      *)
(* third time, which takes attempts to 3 = max (EXHAUSTED at the end of    *)
(* that cycle), and the display refreshed in that cycle shows the count 2  *)
(* in normal colour; in the cycle at 50 attempts = 0, no pump runs and the *)
(* display shows the count 0 in normal colour.                             *)
(***************************************************************************)
C7_Scenario ==
  /\ ScenarioCycleEnds(1) =>
       /\ Level(ScenarioChannel) = 45 /\ Reference(ScenarioChannel) = 40
       /\ ScenarioAttempts = 0
  /\ ScenarioCycleEnds(2) =>
       /\ Level(ScenarioChannel) = 30
       /\ pump_runs[ScenarioChannel] = 1 /\ ScenarioAttempts = 1
  /\ ScenarioCycleEnds(3) =>
       /\ pump_runs[ScenarioChannel] = 1 /\ ScenarioAttempts = 2
  /\ ScenarioCycleEnds(4) =>
       /\ ScenarioAttempts = 3 /\ StateEXHAUSTED(ScenarioChannel)
       /\ pump_runs[ScenarioChannel] = 1
       /\ ScenarioRow.pump_attempts = 2
       /\ ScenarioRow.attempts_color = "BLACK"
  /\ ScenarioCycleEnds(5) =>
       /\ Level(ScenarioChannel) = 50
       /\ ScenarioAttempts = 0
       /\ pump_runs[ScenarioChannel] = 0
       /\ ScenarioRow.pump_attempts = 0
       /\ ScenarioRow.attempts_color = "BLACK"

\* the scenario has been played to the end of the cycle at 50
C7_Witness ==
  /\ ScenarioCycleEnds(5)
  /\ Level(ScenarioChannel) = 50
  /\ refreshes = 1
  /\ ScenarioRow.drawn

(***************************************************************************)
(* C8: in a cycle in which no moisture or reference filter reports a       *)
(* change and no channel is below its reference, the update flag is false: *)
(* no display refresh, no pump run, the channel state array is as it was,  *)
(* and the step after sampling goes straight to sleep.                     *)
(***************************************************************************)
QuietCycle ==
  /\ pc \in {"returned", "sleep"}
  /\ ~any_filter_change
  /\ \A ch \in Channels : Level(ch) >= Reference(ch)

C8_QuietCycleSkips ==
  [][ QuietCycle =>
        /\ ~update
        /\ ~any_state_change
        /\ refreshes = 0
        /\ \A ch \in Channels : pump_runs[ch] = 0 /\ ~PumpOn(ch)
        /\ pc = "returned" =>
             /\ pc' = "sleep"
             /\ UNCHANGED <<channel_state, scene, dec>> ]_vars

\* a quiet cycle has gone to sleep, the display keeping an earlier picture
C8_Witness ==
  /\ QuietCycle
  /\ pc = "sleep"
  /\ \A ch \in Channels : scene[ch].drawn

(***************************************************************************)
(* C9: in a cycle with an update the display refresh is complete before    *)
(* any pump is switched on; the attempt count and its colour on the        *)
(* display are those of pump_attempts before this cycle's increment, so a  *)
(* channel that ran its pump shows one less than its count.                *)
(***************************************************************************)
RowShows(ch, n) ==
  /\ scene[ch].drawn
  /\ scene[ch].pump_attempts = n
  /\ scene[ch].attempts_color =
       IF n >= max_pump_attempts(ch) THEN "RED" ELSE "BLACK"

C9_DisplayBeforePumps ==
  /\ \A ch \in Channels : PumpOn(ch) => refreshes = 1
  /\ (pc \in {"pumps", "pumping", "sleep"} /\ update) =>
       /\ refreshes = 1
       /\ \A ch \in Channels :
            /\ RowShows(ch, attempts_sampled[ch])
            /\ RowShows(ch, Attempts(ch) - pump_runs[ch])

\* the third run is on while the display shows 2 in normal colour
C9_Witness ==
  \E ch \in Channels :
    /\ PumpOn(ch)
    /\ Attempts(ch) = 3
    /\ scene[ch].pump_attempts = 2
    /\ scene[ch].attempts_color = "BLACK"

(***************************************************************************)
(* C10: at most one pump is on at any time; within a cycle pumps run in    *)
(* ascending channel order, and a pump is switched on only with the        *)
(* decoder enable low, i.e. after the pump of every earlier channel has    *)
(* been switched off.                                                      *)
(***************************************************************************)
PumpsOn == {ch \in Channels : PumpOn(ch)}

C10_OnePumpAtATime ==
  [][ /\ Cardinality(PumpsOn) <= 1
      /\ \A ch \in Channels :
           /\ PumpOn(ch) => pc = "pumping" /\ i = ch
           /\ SwitchedOn(ch) =>
                /\ ~dec.en
                /\ PumpsOn = {}
                /\ \A k \in Channels : pump_runs[k] > 0 => k < ch ]_vars

\* the last channel's pump is on after all earlier pumps ran in this cycle
C10_Witness ==
  /\ PumpOn(NUMBER_OF_CHANNELS - 1)
  /\ \A k \in Channels : pump_runs[k] = 1

(***************************************************************************)
(* C11: the decoder is enabled for one address at a time and released      *)
(* after every use.  Enable is low when the sampling of a channel returns, *)
(* during the display refresh and during the sleep; the samples of channel *)
(* i are read with the sensor address of channel i selected; no pump       *)
(* address is selected while sampling.                                     *)
(***************************************************************************)
C11_DecoderReleased ==
  /\ pc \in {"select", "returned", "pumps", "sleep"} => ~dec.en
  /\ pc = "sample" =>
       /\ Selected(dec, sensor_dec(i))
       /\ \A a \in 0 .. 7 : Selected(dec, a) => a = sensor_dec(i)
  /\ pc \in {"select", "sample", "returned"} => PumpsOn = {}
  /\ pc = "pumping" => Selected(dec, pump_dec(i))

\* the last channel has been sampled through its own address, and the
\* enable pin is low again although the address pins still name the sensor
C11_Witness ==
  /\ pc = "returned"
  /\ last.ch = NUMBER_OF_CHANNELS - 1
  /\ ~dec.en
  /\ DecoderAddress(dec) = sensor_dec(NUMBER_OF_CHANNELS - 1)

(***************************************************************************)
(* C12: the stored moisture_level of every channel is within 0 .. 99,      *)
(* whatever 10-bit samples (0 .. 1023) the sensors deliver, readings       *)
(* outside the calibration points included.                                *)
(***************************************************************************)
C12_LevelInRange ==
  /\ \A ch \in Channels : Level(ch) \in 0 .. 99
  /\ last.ch \in Channels => last.percentage \in 0 .. 99

\* the channel went from the driest reading the converter can deliver to
\* the wettest one, both beyond the calibration points
C12_Witness ==
  /\ last.ch = ScenarioChannel
  /\ last.before.moisture_level_raw = ADC_MAX
  /\ last.before.moisture_level = 0
  /\ last.measurement = 0
  /\ Level(ScenarioChannel) = 99
  /\ channel_state[ScenarioChannel].moisture_level_raw = 0

(***************************************************************************)
(* C13: with WET_MEASUREMENT = 150 and DRY_MEASUREMENT = 660 the           *)
(* conversion returns 99 for every raw value <= 150 and 0 for every raw    *)
(* value >= 660, and it never increases when the raw value grows, over the *)
(* whole range 0 .. 1023.                                                  *)
(***************************************************************************)
C13_ConversionMonotone ==
  (probe.kind = "convert" /\ probe.results # <<>>) =>
    /\ probe.measurement <= WET_MEASUREMENT => probe.results[1] = 99
    /\ probe.measurement >= DRY_MEASUREMENT => probe.results[1] = 0
    /\ probe.results[2] <= probe.results[1]
    /\ probe.results[1] \in 0 .. 99

\* the wet calibration point itself converts to 99, and a raw value
\* MaxProbeStep above it still does
C13_Witness ==
  /\ probe.kind = "convert"
  /\ probe.measurement = WET_MEASUREMENT
  /\ probe.step = MaxProbeStep
  /\ probe.results = <<99, 99>>

(***************************************************************************)
(* C14: the change test is changed(old, new, t) = |old - new| > t: false   *)
(* for old = new whatever t >= 0, and symmetric in old and new.  A         *)
(* sampling step, with t = 2, overwrites the stored moisture_level         *)
(* (together with moisture_level_raw) exactly when the test reports a      *)
(* change of the moisture percent, and moisture_reference_level exactly    *)
(* when it reports a change of the reference percent, each independently   *)
(* of the other; otherwise the stored value stays.                         *)
(***************************************************************************)
Distance(a, b) == IF a > b THEN a - b ELSE b - a

C14_ChangeTest ==
  /\ (probe.kind = "almostEqual" /\ probe.results # <<>>) =>
       /\ ~probe.results[1] <=> Distance(probe.a, probe.b) > probe.absdiff
       /\ probe.results[2] <=> probe.results[1]
       /\ probe.results[3]
  /\ last.ch \in Channels =>
       LET cs == channel_state[last.ch]
           before == last.before
           mchanged ==
             Distance(before.moisture_level, last.percentage) > 2
           rchanged ==
             Distance(before.moisture_reference_level, last.percentage_ref) > 2
       IN  /\ cs.moisture_level =
                IF mchanged THEN last.percentage ELSE before.moisture_level
           /\ cs.moisture_level_raw =
                IF mchanged THEN last.measurement
                ELSE before.moisture_level_raw
           /\ cs.moisture_reference_level =
                IF rchanged THEN last.percentage_ref
                ELSE before.moisture_reference_level
           /\ last.mchg <=> mchanged
           /\ last.rchg <=> rchanged

\* one sampling step: the moisture percent moved by 3 and was stored with
\* its raw value, the reference percent moved by 2 and was not
C14_Witness ==
  /\ last.ch = ScenarioChannel
  /\ Distance(last.before.moisture_level, last.percentage) = 3
  /\ Level(ScenarioChannel) = last.percentage
  /\ channel_state[ScenarioChannel].moisture_level_raw = last.measurement
  /\ last.before.moisture_level_raw # last.measurement
  /\ Distance(last.before.moisture_reference_level, last.percentage_ref) = 2
  /\ Reference(ScenarioChannel) = last.before.moisture_reference_level

(***************************************************************************)
(* C15: the cycle never halts.  With the control thread taking every step  *)
(* it can take, whatever the readings are, every cycle that starts         *)
(* sampling reaches its sleep, and after a sleep a new sampling starts:    *)
(* sampling and sleep happen infinitely often and no state is terminal.    *)
(***************************************************************************)
C15_NeverHalts ==
  /\ []<>(pc = "sleep")
  /\ []<>(pc = "sample" /\ i = 0)

\* a new cycle samples the sweeping channel although the channel is
\* exhausted, has been dry for MaxDryCycles cycles and reads the end of the
\* A/D range
C15_Witness ==
  /\ pc = "sample"
  /\ i = ScenarioChannel
  /\ StateEXHAUSTED(ScenarioChannel)
  /\ dry_cycles[ScenarioChannel] = MaxDryCycles
  /\ channel_state[ScenarioChannel].moisture_level_raw = ADC_MAX

(***************************************************************************)
(* C16: a channel found below its reference by the sampling makes          *)
(* any_update true, whether or not a filter reported a change.  A channel  *)
(* that stays EXHAUSTED at a stable reading therefore causes a full        *)
(* display refresh in every cycle, although its pump does not run.         *)
(***************************************************************************)
C16_DryForcesRefresh ==
  /\ pc \in {"select", "sample"} =>
       \A ch \in 0 .. i - 1 : BelowReference(channel_state[ch]) => update
  /\ pc = "returned" =>
       \A ch \in Channels : BelowReference(channel_state[ch]) => update
  /\ pc \in {"pumps", "pumping", "sleep"} =>
       \A ch \in Channels :
         BelowReference(channel_state[ch]) => refreshes = 1
  /\ pc = "sleep" =>
       \A ch \in Channels :
         (/\ BelowReference(channel_state[ch])
          /\ attempts_sampled[ch] = max_pump_attempts(ch)) =>
           pump_runs[ch] = 0

\* a cycle without any filter change ends with the display refreshed and
\* no pump run: the only dry channels are exhausted ones, dry for more
\* cycles than they have attempts
C16_Witness ==
  /\ pc = "sleep"
  /\ ~any_filter_change
  /\ refreshes = 1
  /\ \A k \in Channels : pump_runs[k] = 0
  /\ \E ch \in Channels :
       /\ StateEXHAUSTED(ch)
       /\ attempts_sampled[ch] = max_pump_attempts(ch)
       /\ dry_cycles[ch] > max_pump_attempts(ch)

(***************************************************************************)
(* C17: the phases of a cycle are totally ordered.  The channels are       *)
(* sampled in the order 0 .. 3, each once, before any display refresh or   *)
(* pump run of the cycle; the sleep starts only when the last pump run has *)
(* ended; no sampling takes place during a refresh or a pump run.          *)
(***************************************************************************)
C17_PhasesOrdered ==
  /\ pc \in {"select", "sample"} =>
       /\ \A ch \in Channels : samples[ch] = IF ch < i THEN 1 ELSE 0
       /\ refreshes = 0
       /\ \A ch \in Channels : pump_runs[ch] = 0
       /\ PumpsOn = {}
  /\ pc \in {"returned", "pumps", "pumping", "sleep"} =>
       \A ch \in Channels : samples[ch] = 1
  /\ pc = "returned" =>
       refreshes = 0 /\ \A ch \in Channels : pump_runs[ch] = 0
  /\ pc \in {"pumps", "pumping"} =>
       /\ refreshes = 1
       /\ \A ch \in Channels : pump_runs[ch] > 0 => ch <= i
  /\ pc = "sleep" => PumpsOn = {} /\ ~dec.en

\* the sleep has started after four samplings, the refresh and the run of
\* the last channel's pump, which is off again
C17_Witness ==
  /\ pc = "sleep"
  /\ \A ch \in Channels : samples[ch] = 1
  /\ refreshes = 1
  /\ pump_runs[NUMBER_OF_CHANNELS - 1] = 1
  /\ PumpsOn = {}

(***************************************************************************)
(* C18: after every sampling phase, moisture_level_raw of each channel     *)
(* equals the averaged raw moisture sample taken for that channel in that  *)
(* cycle.                                                                  *)
(*                                                                         *)
(* C18_AsStated is this statement; it fails when the new percent is within *)
(* the tolerance of the stored one, as the raw value is stored in the same *)
(* if-block as the level.  C18_RawFollowsLevel is what the firmware does:  *)
(* moisture_level_raw is the average of this cycle when the moisture       *)
(* filter reported a change and the old value otherwise, so it always is   *)
(* the raw value the stored moisture_level was converted from.             *)
(***************************************************************************)
RawOf(ch) == channel_state[ch].moisture_level_raw

C18_AsStated ==
  last.ch \in Channels => RawOf(last.ch) = last.measurement

C18_RawFollowsLevel ==
  /\ \A ch \in Channels : PercentOf[RawOf(ch)] = Level(ch)
  /\ last.ch \in Channels =>
       RawOf(last.ch) =
         IF Distance(last.before.moisture_level, last.percentage) > 2
         THEN last.measurement
         ELSE last.before.moisture_level_raw

\* the sweeping channel was sampled with a new average whose percent is
\* one or two points from the stored level: level and raw value stay
C18_Witness ==
  /\ last.ch = ScenarioChannel
  /\ Distance(Level(ScenarioChannel), last.percentage) \in 1 .. 2
  /\ RawOf(ScenarioChannel) # last.measurement
  /\ RawOf(ScenarioChannel) = last.before.moisture_level_raw
  /\ Level(ScenarioChannel) = last.before.moisture_level

(***************************************************************************)
(* C19: for every channel, the number of times its pump was switched on    *)
(* since pump_attempts was last 0 equals pump_attempts; so the pump of a   *)
(* channel is switched on at most max_pump_attempts times between two      *)
(* resets.                                                                 *)
(***************************************************************************)
C19_AttemptsCountRuns ==
  \A ch \in Channels :
    /\ runs_since_reset[ch] = Attempts(ch)
    /\ runs_since_reset[ch] <= max_pump_attempts(ch)

\* the pump of a channel is on for the last time it may be: its third
\* switch-on since the count was 0
C19_Witness ==
  \E ch \in Channels :
    /\ PumpOn(ch)
    /\ runs_since_reset[ch] = max_pump_attempts(ch)
    /\ Attempts(ch) = max_pump_attempts(ch)

(***************************************************************************)
(* C20: when a channel has been sampled, its stored moisture_level is at   *)
(* most 2 from the percent converted in this cycle, and its stored         *)
(* moisture_reference_level at most 2 from the reference percent of this   *)
(* cycle (average / 10, within 0 .. 102); the stored values do not change  *)
(* until the phase ends.  So a channel that was OK stays OK in a cycle in  *)
(* which both fresh percents are within 2 of the values stored before.     *)
(***************************************************************************)
C20_StoredNearFresh ==
  last.ch \in Channels =>
    LET ch == last.ch
        before == last.before
    IN  /\ Distance(Level(ch), last.percentage) <= 2
        /\ Distance(Reference(ch), last.percentage_ref) <= 2
        /\ last.percentage_ref \in 0 .. 102
        /\ (/\ before.moisture_level >= before.moisture_reference_level
            /\ before.pump_attempts = 0
            /\ Distance(before.moisture_level, last.percentage) <= 2
            /\ Distance(before.moisture_reference_level,
                        last.percentage_ref) <= 2) => StateOK(ch)

\* an OK channel read a moisture percent 2 below and a reference percent
\* 2 above the stored values, the fresh moisture below the fresh
\* reference, and is still OK
C20_Witness ==
  /\ last.ch = ScenarioChannel
  /\ last.before.moisture_level >= last.before.moisture_reference_level
  /\ last.before.pump_attempts = 0
  /\ last.before.moisture_level - last.percentage = 2
  /\ last.percentage_ref - last.before.moisture_reference_level = 2
  /\ last.percentage < last.percentage_ref
  /\ StateOK(ScenarioChannel)

====
